---- MODULE Spec2Model ----
(***************************************************************************)
(* The read-only Notion MCP proxy (src/src/openapi-mcp-server/mcp/proxy.ts, *)
(* the MCPProxy class that starts at line 272): the tool-call handler, the  *)
(* get-block-children pagination merger and the API-get-one-pager crawl,    *)
(* as one state machine.                                                    *)
(*                                                                          *)
(* JavaScript runs every continuation to its next await without             *)
(* interleaving, so an action is one event of the event loop (a tool call   *)
(* arriving, a remote call settling, the timer firing) together with every  *)
(* continuation that event makes runnable.  The state is passed through the *)
(* handlers as one record s (field = variable); Settle runs the             *)
(* continuations.  JavaScript objects are records/functions over field      *)
(* names, a missing field is a name outside DOMAIN.  A remote call that     *)
(* never answers is a response action that never fires.                     *)
(***************************************************************************)
EXTENDS Integers, Sequences, FiniteSets, TLC

VARIABLES
  world,          \* which remote content the Operation Executor serves
  ops,            \* openApiLookup: the operation ids the proxy knows
  pageCache, blockCache, databaseCache, commentCache, propertyCache,
  hpc,            \* the tool-call handler: "idle", "plain", "merge", "crawl", "responded"
  req,            \* the request being handled: [name, params]
  resp,           \* what the handler returned (or that it threw)
  reqNo,          \* number of tool calls received so far
  calls,          \* bag of remote calls the current request issued: <<operation, id>> -> count
  done,           \* history: the earlier requests, each with the document calls it issued
                  \* for RootId and whether pageCache held RootId when it ended
  mrg,            \* handleBlockChildrenParallel invocations, by listing owner
  plain,          \* the plain operation call in flight: "none" or "pending"
  opts,           \* RecursiveExplorationOptions of the crawl
  cpc,            \* retrievePageRecursively: "idle", "awaitDoc", "awaitAll", "returned"
  timer,          \* timeoutPromise: "none", "armed", "fired"
  raced,          \* a Promise.race has attached a handler to timeoutPromise
  unhandled,      \* the request's timeoutPromise was rejected with no handler attached
  pageData,       \* the crawl's pageData: "none" or the id whose pageCache entry it is
  exp,            \* retrieveBlocksRecursively invocations, by listing owner
  enr,            \* enrichedBlock objects of the children being expanded, by block id
  dbT, infoT,     \* retrieveDatabase / retrievePageBasicInfo tasks, by child block id
  propT,          \* the per-property tasks of enrichPageProperties, by property name
  propsP,         \* the enrichPageProperties promise: "none", "running", "done"
  comT,           \* the retrieveComments promise: "none", "pending", "done"
  comments,       \* what retrieveComments resolved to
  lookups,        \* history: bag of the cache-backed lookups the current request made
  failed,         \* history: the remote calls of the current request that failed
  settled,        \* history: the children whose collection or info call settled, in that order
  late            \* history: what the last event did if the crawl had returned before it:
                  \* "call" (it issued a remote call), "cache" (it added a cache key)

vars == <<world, ops, pageCache, blockCache, databaseCache, commentCache,
          propertyCache, hpc, req, resp, reqNo, calls, done, mrg, plain, opts, cpc,
          timer, raced, unhandled, pageData, exp, enr, dbT, infoT, propT, propsP,
          comT, comments, lookups, failed, settled, late>>

----
\* Bounds of the model.
MaxRequests == 2

----
\* JavaScript objects.
Has(o, k) == k \in DOMAIN o

Put(o, k, v) == [x \in DOMAIN o \cup {k} |-> IF x = k THEN v ELSE o[x]]

Spread(a, b) == [x \in DOMAIN a \cup DOMAIN b |-> IF x \in DOMAIN b THEN b[x] ELSE a[x]]

EmptyMap == [x \in {} |-> TRUE]

Count(bag, k) == IF k \in DOMAIN bag THEN bag[k] ELSE 0

Inc(bag, k, n) == Put(bag, k, Count(bag, k) + n)

----
\* The remote source (what HttpClient.executeOperation answers when it succeeds).
RootId == "p1"

Worlds == {"test", "same_db", "nested", "subdoc", "listing", "two_props"}

AllOps == {"API-retrieve-a-page", "API-get-block-children", "API-retrieve-a-database",
           "API-retrieve-a-comment", "API-retrieve-a-page-property"}

\* the operations of the secondary lookups
SecondaryOps == {"API-retrieve-a-database", "API-retrieve-a-comment",
                 "API-retrieve-a-page-property"}

OpsProfiles == {AllOps, AllOps \ {"API-retrieve-a-page"}, AllOps \ SecondaryOps}

BlockIds == {"b1", "b2", "b3", "b4", "b5", "b6"}

Block(b) ==
  CASE b = "b1" -> [object |-> "block", id |-> "b1", type |-> "paragraph", has_children |-> FALSE]
    [] b = "b2" -> [object |-> "block", id |-> "b2", type |-> "child_database", has_children |-> FALSE,
                    child_database |-> [database_id |-> "db1"]]
    [] b = "b3" -> [object |-> "block", id |-> "b3", type |-> "child_page", has_children |-> TRUE]
    [] b = "b4" -> [object |-> "block", id |-> "b4", type |-> "toggle", has_children |-> TRUE]
    [] b = "b5" -> [object |-> "block", id |-> "b5", type |-> "linked_database", has_children |-> FALSE,
                    linked_database |-> [database_id |-> "db1"]]
    [] b = "b6" -> [object |-> "block", id |-> "b6", type |-> "paragraph", has_children |-> FALSE]

\* The child listing of an owner, as the pages the source serves for it.
Pages(w, owner) ==
  CASE owner = "p1" /\ w = "test"    -> << <<"b1", "b2">> >>
    [] owner = "p1" /\ w = "same_db" -> << <<"b2", "b5">> >>
    [] owner = "p1" /\ w = "nested"  -> << <<"b4">> >>
    [] owner = "p1" /\ w = "subdoc"  -> << <<"b3", "b6">> >>
    [] owner = "b4" -> << <<"b5">> >>
    [] owner = "b3" -> << <<"b1">> >>
    [] owner = "L1" -> << <<"b1", "b2">> >>
    [] owner = "L2" -> << <<"b1", "b2">>, <<"b3">> >>
    [] owner = "L3" -> << <<"b1", "b2">>, <<"b3", "b4">>, <<"b5">> >>
    [] OTHER -> << <<>> >>

Owners == {"p1", "b3", "b4", "L1", "L2", "L3"}

\* Listings a caller asks for directly through API-get-block-children.
DirectOwners == {"L1", "L2", "L3"}

\* Page c of the listing: first request (no start_cursor) is page 1, the cursor
\* of page c is c + 1, 0 stands for a null next_cursor.
ListData(w, owner, c) ==
  LET ps == Pages(w, owner) IN
  [object |-> "list",
   results |-> [k \in 1..Len(ps[c]) |-> Block(ps[c][k])],
   next_cursor |-> IF c < Len(ps) THEN c + 1 ELSE 0,
   has_more |-> c < Len(ps)]

PropNames == {"title", "link", "enc", "tags"}

PagePayload(w, p) ==
  [object |-> "page", id |-> p, url |-> "https://notion.so/page",
   created_time |-> "t0", last_edited_time |-> "t1",
   properties |-> IF w = "nested"
                  THEN [title |-> [id |-> "title", type |-> "title"],
                        link |-> [id |-> "notion://link", type |-> "relation"],
                        enc |-> [id |-> "x%3A%2F%2Fy", type |-> "relation"]]
                  ELSE IF w = "two_props"
                  THEN [title |-> [id |-> "title", type |-> "title"],
                        tags |-> [id |-> "tags", type |-> "multi_select"]]
                  ELSE [title |-> [id |-> "title", type |-> "title"]]]

DbPayload(d) == [object |-> "database", id |-> d]

PropPayload(p, propId) == [object |-> "property_item", id |-> propId, type |-> "title"]

CommentsData(w, p) ==
  [object |-> "list",
   results |-> IF w = "test" THEN <<[object |-> "comment", id |-> "c1"]>> ELSE <<>>]

ErrBody == [object |-> "error", message |-> "remote error"]

\* How a remote call settles: status 200, another status, a thrown
\* HttpClientError, a thrown plain Error.
Outcomes == {"ok", "bad", "throw"}

----
\* MCP text response
Text(v) == [content |-> <<[type |-> "text", text |-> v]>>]

findOperation(known, name) == name \in known

----
\* handleBlockChildrenParallel
NoMrg == [pc |-> "none", first |-> EmptyMap, results |-> <<>>, cursor |-> 0, reqs |-> <<>>]

MaxParallelRequests == 5

Call(s, op, key, n) == [s EXCEPT !.calls = Inc(@, <<op, key>>, n)]

\* history of a cache-backed lookup (the has() tests on the caches)
Lookup(s, op, key) == [s EXCEPT !.lookups = Inc(@, <<op, key>>, 1)]

\* history of a failed call: the operation, the id asked for, the listing page
\* (0 when the call is no listing) and how it failed ("failed" where the code
\* treats a status and a throw alike)
Fail(s, op, key, at, how) ==
  [s EXCEPT !.failed = @ \cup {[op |-> op, id |-> key, at |-> at, how |-> how]}]

Failing(s, op, key, at, outcome) == IF outcome = "ok" THEN s ELSE Fail(s, op, key, at, outcome)

\* The while loop up to its await: one request per iteration, all for the
\* cursor in hand, until maxParallelRequests are queued.
mergeLoop(s, owner) ==
  LET m == s.mrg[owner] IN
  IF m.cursor # 0
  THEN Call([s EXCEPT !.mrg[owner].pc = "batch",
                      !.mrg[owner].reqs = [i \in 1..MaxParallelRequests |-> "pending"]],
            "API-get-block-children", owner, MaxParallelRequests)
  ELSE [s EXCEPT !.mrg[owner].pc = "done"]

mergeStart(s, owner) ==
  Call([s EXCEPT !.mrg[owner] = [NoMrg EXCEPT !.pc = "first"]],
       "API-get-block-children", owner, 1)

mergeFirst(s, owner, outcome) ==
  CASE outcome = "ok" ->
         LET d == ListData(s.world, owner, 1) IN
         mergeLoop([s EXCEPT !.mrg[owner].first = d,
                             !.mrg[owner].results = d.results,
                             !.mrg[owner].cursor = d.next_cursor], owner)
    [] outcome = "bad" ->
         Fail([s EXCEPT !.mrg[owner].pc = "bad", !.mrg[owner].first = ErrBody],
              "API-get-block-children", owner, 1, outcome)
    [] OTHER ->
         Fail([s EXCEPT !.mrg[owner].pc = "threw"], "API-get-block-children", owner, 1, outcome)

\* What one queued request resolves to (.then / .catch)
pageResult(w, owner, cursor, status) ==
  IF status = "ok"
  THEN [results |-> ListData(w, owner, cursor).results,
        next_cursor |-> ListData(w, owner, cursor).next_cursor]
  ELSE [results |-> <<>>, next_cursor |-> 0]

RECURSIVE mergeResponses(_, _, _, _, _)
mergeResponses(w, owner, cursor, reqs, acc) ==
  IF reqs = <<>> THEN acc
  ELSE LET r == pageResult(w, owner, cursor, Head(reqs)) IN
       mergeResponses(w, owner, cursor, Tail(reqs),
                      [results |-> acc.results \o r.results, next_cursor |-> r.next_cursor])

mergeNext(s, owner, i, outcome) ==
  LET m == s.mrg[owner]
      reqs == [m.reqs EXCEPT ![i] = IF outcome = "ok" THEN "ok" ELSE "fail"]
  IN IF \E k \in DOMAIN reqs : reqs[k] = "pending"
     THEN [s EXCEPT !.mrg[owner].reqs = reqs]
     ELSE LET acc == mergeResponses(s.world, owner, m.cursor, reqs,
                                    [results |-> m.results, next_cursor |-> m.cursor])
              t == [s EXCEPT !.mrg[owner].reqs = <<>>,
                             !.mrg[owner].results = acc.results,
                             !.mrg[owner].cursor = acc.next_cursor]
          IN mergeLoop(IF \A k \in DOMAIN reqs : reqs[k] = "ok" THEN t
                       ELSE Fail(t, "API-get-block-children", owner, m.cursor,
                                 IF \A k \in DOMAIN reqs : reqs[k] = "fail"
                                 THEN "all" ELSE "some"), owner)

\* The value handleBlockChildrenParallel returns (pc "done" or "bad")
mergedResponse(m) ==
  IF m.pc = "bad" THEN Text(m.first)
  ELSE Text(Spread(m.first, [results |-> m.results, has_more |-> FALSE, next_cursor |-> 0]))

----
\* RecursiveExplorationOptions (handleOnePagerRequest)
DefaultMaxDepth == 5

DefaultMaxParallelRequests == 15

DefaultBatchSize == 10

DefaultTimeoutMs == 60000

\* params.k || d, for a number
OrNum(params, k, d) == IF Has(params, k) /\ params[k] # 0 THEN params[k] ELSE d

\* params.k !== false
NotFalse(params, k) == ~(Has(params, k) /\ params[k] = FALSE)

\* params.k || false
OrFalse(params, k) == Has(params, k) /\ params[k]

resolveOptions(params) ==
  [maxDepth |-> OrNum(params, "maxDepth", DefaultMaxDepth),
   includeDatabases |-> NotFalse(params, "includeDatabases"),
   includeComments |-> NotFalse(params, "includeComments"),
   includeProperties |-> NotFalse(params, "includeProperties"),
   maxParallelRequests |-> OrNum(params, "maxParallelRequests", DefaultMaxParallelRequests),
   skipCache |-> OrFalse(params, "skipCache"),
   batchSize |-> OrNum(params, "batchSize", DefaultBatchSize),
   timeoutMs |-> OrNum(params, "timeoutMs", DefaultTimeoutMs)]

\* options.maxDepth || 5
maxDepthOf(o) == IF o.maxDepth # 0 THEN o.maxDepth ELSE DefaultMaxDepth

\* batchSizeOf with the option not consulted
batchSizeOfDefault(o) == DefaultBatchSize

\* batchSizeOf capped by maxParallelRequests
batchSizeOfCapped(o) ==
  LET n == IF o.batchSize # 0 THEN o.batchSize ELSE DefaultBatchSize IN
  IF o.maxParallelRequests < n THEN o.maxParallelRequests ELSE n

\* options.batchSize || 10
batchSizeOf(o) == IF o.batchSize # 0 THEN o.batchSize ELSE DefaultBatchSize

MaxDepthNote == "Maximum recursion depth reached"

TimedOut == "Operation timed out"

\* useCache with the cache never consulted
useCacheNever(o, cache, key) == FALSE

\* useCache with skipCache not consulted
useCacheAlways(o, cache, key) == key \in DOMAIN cache

\* !options.skipCache && cache.has(key)
useCache(o, cache, key) == ~o.skipCache /\ key \in DOMAIN cache

----
\* retrieveDatabase
databaseIdOf(blk) ==
  IF Has(blk, blk.type) /\ Has(blk[blk.type], "database_id")
  THEN blk[blk.type].database_id ELSE ""

\* wantsDatabase with the option not consulted
wantsDatabaseAnyway(o, blk) ==
  /\ blk.type \in {"child_database", "linked_database"}
  /\ databaseIdOf(blk) # ""

wantsDatabase(o, blk) ==
  /\ o.includeDatabases
  /\ blk.type \in {"child_database", "linked_database"}
  /\ databaseIdOf(blk) # ""

failedDatabase(d) == [id |-> d, error |-> "Failed to retrieve database"]

\* retrieveDatabase reporting a missing operation as a failure
retrieveDatabaseStrict(s0, b, d) ==
  LET s == Lookup(s0, "API-retrieve-a-database", d) IN
  IF useCache(s.opts, s.databaseCache, d)
  THEN [s EXCEPT !.dbT[b] = "done", !.enr[b] = Put(@, "database", s.databaseCache[d])]
  ELSE IF ~findOperation(s.ops, "API-retrieve-a-database")
  THEN [s EXCEPT !.dbT[b] = "done", !.enr[b] = Put(@, "database", failedDatabase(d))]
  ELSE Call([s EXCEPT !.dbT[b] = "pending"], "API-retrieve-a-database", d, 1)

retrieveDatabase(s0, b, d) ==
  LET s == Lookup(s0, "API-retrieve-a-database", d) IN
  IF useCache(s.opts, s.databaseCache, d)
  THEN [s EXCEPT !.dbT[b] = "done", !.enr[b] = Put(@, "database", s.databaseCache[d])]
  ELSE IF ~findOperation(s.ops, "API-retrieve-a-database")
  THEN [s EXCEPT !.dbT[b] = "done",
                 !.enr[b] = Put(@, "database", [id |-> d, note |-> "Database details not available"])]
  ELSE Call([s EXCEPT !.dbT[b] = "pending"], "API-retrieve-a-database", d, 1)

databaseSettled(s0, b, outcome) ==
  LET d == databaseIdOf(Block(b))
      s == [s0 EXCEPT !.settled = Append(@, b)] IN
  IF outcome = "ok"
  THEN [s EXCEPT !.dbT[b] = "done",
                 !.databaseCache = Put(@, d, DbPayload(d)),
                 !.enr[b] = Put(@, "database", DbPayload(d))]
  ELSE Fail([s EXCEPT !.dbT[b] = "done", !.enr[b] = Put(@, "database", failedDatabase(d))],
            "API-retrieve-a-database", d, 0, "failed")

----
\* retrievePageBasicInfo
titleOf(pd) ==
  IF Has(pd, "properties") /\ Has(pd.properties, "title")
  THEN pd.properties.title ELSE [text |-> "null"]

retrievePageBasicInfo(s0, b) ==
  LET s == Lookup(s0, "API-retrieve-a-page", b) IN
  IF useCache(s.opts, s.pageCache, b)
  THEN LET c == s.pageCache[b] IN
       [s EXCEPT !.infoT[b] = "done",
                 !.enr[b] = Put(@, "page_info",
                                [id |-> c.id, title |-> titleOf(c), url |-> c.url,
                                 fromCache |-> TRUE])]
  ELSE IF ~findOperation(s.ops, "API-retrieve-a-page")
  THEN [s EXCEPT !.infoT[b] = "done",
                 !.enr[b] = Put(@, "page_info",
                                [id |-> b, note |-> "API-retrieve-a-page method not found"])]
  ELSE Call([s EXCEPT !.infoT[b] = "pending"], "API-retrieve-a-page", b, 1)

pageInfoSettled(s0, b, outcome) ==
  LET s == Failing([s0 EXCEPT !.settled = Append(@, b)], "API-retrieve-a-page", b, 0, outcome) IN
  CASE outcome = "ok" ->
         LET pd == PagePayload(s.world, b) IN
         [s EXCEPT !.infoT[b] = "done",
                   !.pageCache = Put(@, b, pd),
                   !.enr[b] = Put(@, "page_info",
                                  [id |-> pd.id, title |-> titleOf(pd), url |-> pd.url,
                                   created_time |-> pd.created_time,
                                   last_edited_time |-> pd.last_edited_time])]
    [] outcome = "bad" ->
         [s EXCEPT !.infoT[b] = "done",
                   !.enr[b] = Put(@, "page_info",
                                  [id |-> b, error |-> "Failed to retrieve page", status |-> 400])]
    [] OTHER ->
         [s EXCEPT !.infoT[b] = "done",
                   !.enr[b] = Put(@, "page_info", [id |-> b, error |-> "request failed"])]

----
\* retrieveComments
\* retrieveComments invoking a writing operation
retrieveCommentsWriting(s, pageId) ==
  Call([s EXCEPT !.comT = "pending"], "API-create-a-comment", pageId, 1)

\* retrieveComments issuing the call twice
retrieveCommentsTwice(s, pageId) ==
  IF ~findOperation(s.ops, "API-retrieve-a-comment")
  THEN [s EXCEPT !.comT = "done", !.comments = [results |-> <<>>]]
  ELSE Call([s EXCEPT !.comT = "pending"], "API-retrieve-a-comment", pageId, 2)

retrieveComments(s, pageId) ==
  IF ~findOperation(s.ops, "API-retrieve-a-comment")
  THEN [s EXCEPT !.comT = "done", !.comments = [results |-> <<>>]]
  ELSE Call([s EXCEPT !.comT = "pending"], "API-retrieve-a-comment", pageId, 1)

RECURSIVE cacheComments(_, _)
cacheComments(cache, cs) ==
  IF cs = <<>> THEN cache
  ELSE cacheComments(IF Has(Head(cs), "id") THEN Put(cache, Head(cs).id, Head(cs)) ELSE cache,
                     Tail(cs))

commentsSettled(s, outcome) ==
  IF outcome = "ok"
  THEN LET d == CommentsData(s.world, s.pageData) IN
       [s EXCEPT !.comT = "done", !.comments = d,
                 !.commentCache = cacheComments(@, d.results)]
  ELSE Fail([s EXCEPT !.comT = "done", !.comments = [results |-> <<>>]],
            "API-retrieve-a-comment", s.pageData, 0, "failed")

----
\* enrichPageProperties.  enrichedProperties = {...properties} shares the
\* property objects with pageData, which is the object held by pageCache, so
\* a detail is written into that entry.
SpecialPropIds == {"notion://link", "x%3A%2F%2Fy"}

\* isSpecialUrl looking for the raw marker alone
isSpecialUrlRaw(propId) == propId \in {"notion://link"}

\* propId.includes('notion://') || propId.includes('%3A%2F%2F')
isSpecialUrl(propId) == propId \in SpecialPropIds

setDetails(s, pageId, name, v) ==
  [s EXCEPT !.pageCache[pageId].properties[name] = Put(@, "details", v)]

unsupportedDetail ==
  [object |-> "property_item", type |-> "unsupported",
   unsupported |-> [type |-> "special_url_format"]]

errorDetail(status) ==
  [object |-> "property_item", type |-> "error", error |-> [status |-> status]]

propertyTask(s0, pageId, name) ==
  LET propId == s0.pageCache[pageId].properties[name].id
      key == <<pageId, propId>>
      s == Lookup(s0, "API-retrieve-a-page-property", propId)
  IN IF useCache(s.opts, s.propertyCache, key)
     THEN [setDetails(s, pageId, name, s.propertyCache[key]) EXCEPT !.propT[name] = "done"]
     ELSE IF isSpecialUrl(propId)
     THEN [setDetails(s, pageId, name, unsupportedDetail) EXCEPT !.propT[name] = "done"]
     ELSE IF ~findOperation(s.ops, "API-retrieve-a-page-property")
     THEN [s EXCEPT !.propT[name] = "done"]
     ELSE Call([s EXCEPT !.propT[name] = "pending"], "API-retrieve-a-page-property", propId, 1)

RECURSIVE propertyTasks(_, _, _)
propertyTasks(s, pageId, names) ==
  IF names = {} THEN s
  ELSE LET n == CHOOSE x \in names : TRUE IN
       propertyTasks(propertyTask(s, pageId, n), pageId, names \ {n})

enrichPageProperties(s, pageId) ==
  LET props == s.pageCache[pageId].properties IN
  propertyTasks([s EXCEPT !.propsP = "running"], pageId,
                {n \in DOMAIN props : Has(props[n], "id")})

\* propertySettled storing whatever detail it attaches
propertySettledCaching(s, name, outcome) ==
  LET pageId == s.pageData
      propId == s.pageCache[pageId].properties[name].id
      t == Failing([s EXCEPT !.propT[name] = "done"],
                   "API-retrieve-a-page-property", propId, 0, outcome)
      v == CASE outcome = "ok" -> PropPayload(pageId, propId)
             [] outcome = "bad" -> errorDetail(400)
             [] OTHER -> errorDetail(500)
  IN [setDetails(t, pageId, name, v) EXCEPT !.propertyCache = Put(@, <<pageId, propId>>, v)]

propertySettled(s, name, outcome) ==
  LET pageId == s.pageData
      propId == s.pageCache[pageId].properties[name].id
      t == Failing([s EXCEPT !.propT[name] = "done"],
                   "API-retrieve-a-page-property", propId, 0, outcome)
  IN CASE outcome = "ok" ->
            [setDetails(t, pageId, name, PropPayload(pageId, propId))
               EXCEPT !.propertyCache = Put(@, <<pageId, propId>>, PropPayload(pageId, propId))]
       [] outcome = "bad" -> setDetails(t, pageId, name, errorDetail(400))
       [] OTHER -> setDetails(t, pageId, name, errorDetail(500))

----
\* retrieveBlocksRecursively
NoExp == [pc |-> "none", depth |-> 0, blocks |-> <<>>, i |-> 0, out |-> <<>>]

failedNode(id, msg) == [id |-> id, error |-> msg, retrievalFailed |-> TRUE]

\* up to the await of handleBlockChildrenParallel
retrieveBlocksRecursively(s, o, depth) ==
  IF depth >= maxDepthOf(s.opts)
  THEN [s EXCEPT !.exp[o] = [NoExp EXCEPT !.pc = "done", !.depth = depth,
                                          !.out = <<[note |-> MaxDepthNote]>>]]
  ELSE IF ~findOperation(s.ops, "API-get-block-children")
  THEN [s EXCEPT !.exp[o] = [NoExp EXCEPT !.pc = "done", !.depth = depth,
                   !.out = <<failedNode(o, "API-get-block-children method not found.")>>]]
  ELSE mergeStart([s EXCEPT !.exp[o] = [NoExp EXCEPT !.pc = "merging", !.depth = depth]], o)

wantsPageInfo(o, blk, depth) == blk.type = "child_page" /\ depth < maxDepthOf(o) - 1

\* batch.map(async block => ...) for one block, up to its await
expandChild(s, blk, depth) ==
  LET s1 == [s EXCEPT !.blockCache = Put(@, blk.id, blk), !.enr[blk.id] = blk]
      s2 == IF blk.has_children THEN retrieveBlocksRecursively(s1, blk.id, depth + 1) ELSE s1
      s3 == IF wantsDatabase(s.opts, blk) THEN retrieveDatabase(s2, blk.id, databaseIdOf(blk)) ELSE s2
  IN IF wantsPageInfo(s.opts, blk, depth) THEN retrievePageBasicInfo(s3, blk.id) ELSE s3

RECURSIVE expandBatch(_, _, _, _, _)
expandBatch(s, blocks, from, to, depth) ==
  IF from > to THEN s
  ELSE expandBatch(expandChild(s, blocks[from], depth), blocks, from + 1, to, depth)

Min(a, b) == IF a < b THEN a ELSE b

\* blocks.slice(i, i + batchSize), as the last index of the batch
batchEnd(o, e) == Min(e.i + batchSizeOf(o) - 1, Len(e.blocks))

startBatch(s, o) ==
  LET e == s.exp[o] IN expandBatch(s, e.blocks, e.i, batchEnd(s.opts, e), e.depth)

\* the continuation of the await of handleBlockChildrenParallel
mergeReady(s, o) == s.exp[o].pc = "merging" /\ s.mrg[o].pc \in {"done", "bad", "threw"}

afterMerge(s, o) ==
  LET m == s.mrg[o]
      t == [s EXCEPT !.mrg[o] = NoMrg]
      blocksData == mergedResponse(m).content[1].text
      blocks == IF Has(blocksData, "results") THEN blocksData.results ELSE <<>>
  IN IF m.pc = "threw"
     THEN [t EXCEPT !.exp[o].pc = "done", !.exp[o].out = <<failedNode(o, "request failed")>>]
     ELSE IF Len(blocks) = 0
     THEN [t EXCEPT !.exp[o].pc = "done", !.exp[o].out = <<>>]
     ELSE startBatch([t EXCEPT !.exp[o].pc = "batch", !.exp[o].blocks = blocks,
                               !.exp[o].i = 1], o)

\* await Promise.all(blockTasks) of one child
childDone(s, blk) ==
  /\ blk.has_children => s.exp[blk.id].pc = "done"
  /\ s.dbT[blk.id] # "pending"
  /\ s.infoT[blk.id] # "pending"

enrichedOf(s, blk) ==
  IF blk.has_children
  THEN Put(s.enr[blk.id], "children", s.exp[blk.id].out)
  ELSE s.enr[blk.id]

batchReady(s, o) ==
  /\ s.exp[o].pc = "batch"
  /\ \A k \in s.exp[o].i .. batchEnd(s.opts, s.exp[o]) : childDone(s, s.exp[o].blocks[k])

\* afterBatch pushing the children of the batch last first
afterBatchReversed(s, o) ==
  LET e == s.exp[o]
      hi == batchEnd(s.opts, e)
      ids == {e.blocks[k].id : k \in e.i .. hi}
      out == e.out \o [k \in 1 .. (hi - e.i + 1) |-> enrichedOf(s, e.blocks[hi - k + 1])]
      t == [s EXCEPT !.exp = [x \in DOMAIN @ |-> IF x \in ids THEN NoExp ELSE @[x]],
                     !.enr = [x \in DOMAIN @ |-> IF x \in ids THEN EmptyMap ELSE @[x]],
                     !.dbT = [x \in DOMAIN @ |-> IF x \in ids THEN "none" ELSE @[x]],
                     !.infoT = [x \in DOMAIN @ |-> IF x \in ids THEN "none" ELSE @[x]]]
  IN IF hi >= Len(e.blocks)
     THEN [t EXCEPT !.exp[o].pc = "done", !.exp[o].out = out, !.exp[o].blocks = <<>>]
     ELSE startBatch([t EXCEPT !.exp[o].out = out, !.exp[o].i = hi + 1], o)

\* the continuation of await Promise.all(batch.map(...)): the batch's children
\* are pushed in listing order, then the next batch starts or the call returns
afterBatch(s, o) ==
  LET e == s.exp[o]
      hi == batchEnd(s.opts, e)
      ids == {e.blocks[k].id : k \in e.i .. hi}
      out == e.out \o [k \in 1 .. (hi - e.i + 1) |-> enrichedOf(s, e.blocks[e.i + k - 1])]
      t == [s EXCEPT !.exp = [x \in DOMAIN @ |-> IF x \in ids THEN NoExp ELSE @[x]],
                     !.enr = [x \in DOMAIN @ |-> IF x \in ids THEN EmptyMap ELSE @[x]],
                     !.dbT = [x \in DOMAIN @ |-> IF x \in ids THEN "none" ELSE @[x]],
                     !.infoT = [x \in DOMAIN @ |-> IF x \in ids THEN "none" ELSE @[x]]]
  IN IF hi >= Len(e.blocks)
     THEN [t EXCEPT !.exp[o].pc = "done", !.exp[o].out = out, !.exp[o].blocks = <<>>]
     ELSE startBatch([t EXCEPT !.exp[o].out = out, !.exp[o].i = hi + 1], o)

----
\* retrievePageRecursively
timeoutNode(id, o) ==
  [id |-> id, error |-> TimedOut, partial_results |-> TRUE,
   note |-> <<"Processing exceeded timeout limit", o.timeoutMs>>]

TimerMessage == "Operation timed out after ms"

\* includesTimedOut looking for 'timeout'
includesTimeout(msg) == msg \in {"request timeout"}

\* error.message.includes('timed out')
includesTimedOut(msg) == msg \in {TimerMessage, "socket timed out"}

\* catchBlock rethrowing what is no timeout
catchBlockRethrow(id, o, msg) ==
  IF includesTimedOut(msg) THEN [node |-> timeoutNode(id, o)] ELSE [thrown |-> msg]

\* the catch block: what retrievePageRecursively then settles with
catchBlock(id, o, msg) ==
  [node |-> IF includesTimedOut(msg) THEN timeoutNode(id, o) ELSE failedNode(id, msg)]

metaOf(o) ==
  [processingTimeMs |-> "duration", retrievedAt |-> "now",
   options |-> [maxDepth |-> o.maxDepth, includeDatabases |-> o.includeDatabases,
                includeComments |-> o.includeComments,
                includeProperties |-> o.includeProperties]]

\* handleOnePagerRequest after its await: the tree with _meta, or its catch
\* block's error envelope when retrievePageRecursively rejected with r.thrown
\* (details is undefined for an error that is no HttpClientError, and
\* JSON.stringify leaves it out)
settleCrawl(s, r) ==
  [s EXCEPT !.cpc = "returned", !.hpc = "responded",
            !.resp = IF Has(r, "thrown")
                     THEN Text([status |-> "error", message |-> r.thrown, code |-> 500,
                                timestamp |-> "now"])
                     ELSE Text(Spread(r.node, [_meta |-> metaOf(s.opts)]))]

returnNode(s, node) == settleCrawl(s, [node |-> node])

\* the three tasks, each up to its first await, then the race of line 644
launchTasks(s) ==
  LET pageId == s.pageData
      pd == s.pageCache[pageId]
      a == retrieveBlocksRecursively(s, pageId, 1)
      b == IF s.opts.includeProperties /\ Has(pd, "properties")
           THEN enrichPageProperties(a, pageId) ELSE a
      c == IF s.opts.includeComments THEN retrieveComments(b, pageId) ELSE b
  IN [c EXCEPT !.cpc = "awaitAll", !.raced = TRUE]

retrievePageRecursively(s, pageId) ==
  LET t0 == [s EXCEPT !.timer = "armed", !.raced = FALSE]
      t == Lookup(t0, "API-retrieve-a-page", pageId)
  IN
  IF 0 >= maxDepthOf(t0.opts)
  THEN returnNode(t0, [id |-> pageId, note |-> MaxDepthNote])
  ELSE IF useCache(t.opts, t.pageCache, pageId)
  THEN launchTasks([t EXCEPT !.pageData = pageId])
  ELSE IF ~findOperation(t.ops, "API-retrieve-a-page")
  THEN settleCrawl(t, catchBlock(pageId, t.opts, "API-retrieve-a-page method not found."))
  ELSE Call([t EXCEPT !.cpc = "awaitDoc", !.raced = TRUE], "API-retrieve-a-page", pageId, 1)

DocOutcomes == Outcomes \cup {"throwTimedOut"}

\* documentSettled with the cache written before the status is looked at
documentSettledCacheFirst(s0, outcome) ==
  LET pageId == s0.req.params.page_id
      s == Failing(s0, "API-retrieve-a-page", pageId, 0, outcome)
  IN
  CASE outcome = "ok" ->
         launchTasks([s EXCEPT !.pageCache = Put(@, pageId, PagePayload(s.world, pageId)),
                               !.pageData = pageId])
    [] outcome = "bad" ->
         returnNode([s EXCEPT !.pageCache = Put(@, pageId, ErrBody)],
                    [id |-> pageId, error |-> "Failed to retrieve page",
                     status |-> 400, details |-> ErrBody])
    [] outcome = "throw" -> settleCrawl(s, catchBlock(pageId, s.opts, "request failed"))
    [] OTHER -> settleCrawl(s, catchBlock(pageId, s.opts, "socket timed out"))

documentSettled(s0, outcome) ==
  LET pageId == s0.req.params.page_id
      s == Failing(s0, "API-retrieve-a-page", pageId, 0, outcome)
  IN
  CASE outcome = "ok" ->
         launchTasks([s EXCEPT !.pageCache = Put(@, pageId, PagePayload(s.world, pageId)),
                               !.pageData = pageId])
    [] outcome = "bad" ->
         returnNode(s, [id |-> pageId, error |-> "Failed to retrieve page",
                        status |-> 400, details |-> ErrBody])
    [] outcome = "throw" -> settleCrawl(s, catchBlock(pageId, s.opts, "request failed"))
    [] OTHER -> settleCrawl(s, catchBlock(pageId, s.opts, "socket timed out"))

allTasksDone(s) ==
  /\ s.cpc = "awaitAll"
  /\ s.exp[s.pageData].pc = "done"
  /\ s.propsP # "running"
  /\ s.comT # "pending"

\* enrichedPageData keeping the outputs of the tasks only when none had a failure
enrichedPageDataAllOrNothing(s) ==
  LET pd == s.pageCache[s.pageData]
      n1 == Put(pd, "content", s.exp[s.pageData].out)
      n2 == IF s.opts.includeProperties /\ Has(pd, "properties")
            THEN Put(n1, "detailed_properties", pd.properties) ELSE n1
  IN IF s.failed # {} THEN pd
     ELSE IF s.opts.includeComments /\ Len(s.comments.results) > 0
     THEN Put(n2, "comments", s.comments) ELSE n2

\* lines 646-669
enrichedPageData(s) ==
  LET pd == s.pageCache[s.pageData]
      n1 == Put(pd, "content", s.exp[s.pageData].out)
      n2 == IF s.opts.includeProperties /\ Has(pd, "properties")
            THEN Put(n1, "detailed_properties", pd.properties) ELSE n1
  IN IF s.opts.includeComments /\ Len(s.comments.results) > 0
     THEN Put(n2, "comments", s.comments) ELSE n2

\* timerFired when no await raced timeoutPromise
timerFiredUnraced(s) == [s EXCEPT !.timer = "fired", !.unhandled = TRUE]

\* timerFired dropping the work that is outstanding
timerFiredCancelling(s) ==
  LET t == [s EXCEPT !.timer = "fired"] IN
  IF s.cpc \in {"awaitDoc", "awaitAll"}
  THEN [settleCrawl(t, catchBlock(s.req.params.page_id, s.opts, TimerMessage))
          EXCEPT !.mrg = [o \in Owners |-> NoMrg],
                 !.dbT = [b \in BlockIds |-> "none"],
                 !.infoT = [b \in BlockIds |-> "none"],
                 !.propT = [n \in PropNames |-> "none"],
                 !.comT = "none"]
  ELSE IF ~s.raced THEN [t EXCEPT !.unhandled = TRUE] ELSE t

timerFired(s) ==
  LET t == [s EXCEPT !.timer = "fired"] IN
  IF s.cpc \in {"awaitDoc", "awaitAll"}
  THEN settleCrawl(t, catchBlock(s.req.params.page_id, s.opts, TimerMessage))
  ELSE IF ~s.raced THEN [t EXCEPT !.unhandled = TRUE] ELSE t

----
\* The CallToolRequestSchema handler
OnePager == "API-get-one-pager"

notFoundResponse(name) ==
  Text([status |-> "error", message |-> <<"Method not found", name>>, code |-> 404])

\* updateCacheFromResponse
\* updateCacheFromResponse starting the document cache afresh
updateCacheFromResponseFresh(s, name, data) ==
  IF name = "API-retrieve-a-page" /\ Has(data, "object") /\ data.object = "page" /\ Has(data, "id")
  THEN [s EXCEPT !.pageCache = Put(EmptyMap, data.id, data)]
  ELSE s

updateCacheFromResponse(s, name, data) ==
  IF name = "API-retrieve-a-page" /\ Has(data, "object") /\ data.object = "page" /\ Has(data, "id")
  THEN [s EXCEPT !.pageCache = Put(@, data.id, data)]
  ELSE IF name = "API-retrieve-a-database" /\ Has(data, "object") /\ data.object = "database"
          /\ Has(data, "id")
  THEN [s EXCEPT !.databaseCache = Put(@, data.id, data)]
  ELSE s

plainPayload(w, r) ==
  IF r.name = "API-retrieve-a-page" THEN PagePayload(w, r.params.page_id)
  ELSE DbPayload(r.params.database_id)

plainKey(r) ==
  IF r.name = "API-retrieve-a-page" THEN r.params.page_id ELSE r.params.database_id

PlainOutcomes == Outcomes \cup {"throwOther"}

\* What executeOperation throws: an HttpClientError, or another Error
thrownBy(outcome) ==
  IF outcome = "throw"
  THEN [http |-> TRUE, status |-> 400, message |-> "request failed", data |-> ErrBody]
  ELSE [http |-> FALSE, message |-> "failure"]

\* toolCatch rethrowing what is no HttpClientError (as lines 128-143 did)
toolCatchRethrow(err) ==
  IF err.http
  THEN Text([status |-> "error", code |-> err.status, message |-> err.message,
             details |-> err.data])
  ELSE [threw |-> err.message]

\* the handler's catch block: what the handler then returns
toolCatch(err) ==
  IF err.http
  THEN Text([status |-> "error", code |-> err.status, message |-> err.message,
             details |-> err.data])
  ELSE Text([status |-> "error", message |-> err.message, code |-> 500])

\* the continuation of await executeOperation
plainSettled(s0, outcome) ==
  LET s == Failing(s0, s0.req.name, plainKey(s0.req), 0, outcome)
      t == [s EXCEPT !.plain = "none", !.hpc = "responded"] IN
  CASE outcome = "ok" ->
         LET d == plainPayload(s.world, s.req) IN
         [updateCacheFromResponse(t, s.req.name, d) EXCEPT !.resp = Text(d)]
    [] outcome = "bad" ->
         [updateCacheFromResponse(t, s.req.name, ErrBody) EXCEPT !.resp = Text(ErrBody)]
    [] OTHER -> [t EXCEPT !.resp = toolCatch(thrownBy(outcome))]

\* the direct API-get-block-children call returns what the merger returns; a
\* throw of its first fetch lands in the handler's catch
directReady(s) == s.hpc = "merge" /\ s.mrg[s.req.params.block_id].pc \in {"done", "bad", "threw"}

directRespond(s) ==
  LET o == s.req.params.block_id
      m == s.mrg[o]
      t == [s EXCEPT !.hpc = "responded", !.mrg[o] = NoMrg]
  IN IF m.pc = "threw"
     THEN [t EXCEPT !.resp = toolCatch(thrownBy("throw"))]
     ELSE [t EXCEPT !.resp = mergedResponse(m)]

propsReady(s) == s.propsP = "running" /\ \A n \in PropNames : s.propT[n] # "pending"

\* Every continuation that has become runnable, run to the next await.
RECURSIVE Settle(_)
Settle(s) ==
  IF \E o \in Owners : mergeReady(s, o)
  THEN Settle(afterMerge(s, CHOOSE o \in Owners : mergeReady(s, o)))
  ELSE IF \E o \in Owners : batchReady(s, o)
  THEN Settle(afterBatch(s, CHOOSE o \in Owners : batchReady(s, o)))
  ELSE IF propsReady(s)
  THEN Settle([s EXCEPT !.propsP = "done"])
  ELSE IF allTasksDone(s)
  THEN Settle(returnNode(s, enrichedPageData(s)))
  ELSE IF directReady(s)
  THEN Settle(directRespond(s))
  ELSE s

handleOnePagerRequest(s, params) ==
  retrievePageRecursively([s EXCEPT !.opts = resolveOptions(params), !.hpc = "crawl"],
                          params.page_id)

\* What a new request finds: the locals of the previous one are gone (its
\* outstanding calls are taken never to answer from here on).
freshTasks(s) ==
  [s EXCEPT !.mrg = [o \in Owners |-> NoMrg],
            !.exp = [o \in Owners |-> NoExp],
            !.enr = [b \in BlockIds |-> EmptyMap],
            !.dbT = [b \in BlockIds |-> "none"],
            !.infoT = [b \in BlockIds |-> "none"],
            !.propT = [n \in PropNames |-> "none"],
            !.propsP = "none", !.comT = "none", !.comments = [results |-> <<>>],
            !.plain = "none", !.cpc = "idle", !.timer = "none", !.raced = FALSE,
            !.pageData = "none", !.resp = Text(EmptyMap), !.unhandled = FALSE,
            !.lookups = EmptyMap, !.failed = {}, !.settled = <<>>]

callTool(s0, r) ==
  LET s == [freshTasks(s0) EXCEPT
              !.req = r, !.reqNo = @ + 1, !.calls = EmptyMap,
              !.done = IF s0.reqNo = 0 THEN @
                       ELSE Append(@, [req |-> s0.req,
                                       docCalls |-> Count(s0.calls, <<"API-retrieve-a-page", RootId>>),
                                       cached |-> RootId \in DOMAIN s0.pageCache])]
  IN IF r.name = OnePager
     THEN handleOnePagerRequest(s, r.params)
     ELSE IF ~findOperation(s.ops, r.name)
     THEN [s EXCEPT !.hpc = "responded", !.resp = notFoundResponse(r.name)]
     ELSE IF r.name = "API-get-block-children"
     THEN mergeStart([s EXCEPT !.hpc = "merge"], r.params.block_id)
     ELSE Call([s EXCEPT !.hpc = "plain", !.plain = "pending"], r.name, plainKey(r), 1)

----
\* The state as one record, and back.
St ==
  [world |-> world, ops |-> ops, pageCache |-> pageCache, blockCache |-> blockCache,
   databaseCache |-> databaseCache, commentCache |-> commentCache,
   propertyCache |-> propertyCache, hpc |-> hpc, req |-> req, resp |-> resp,
   reqNo |-> reqNo, calls |-> calls, done |-> done, mrg |-> mrg, plain |-> plain,
   opts |-> opts, cpc |-> cpc, timer |-> timer, raced |-> raced, unhandled |-> unhandled,
   pageData |-> pageData, exp |-> exp, enr |-> enr, dbT |-> dbT, infoT |-> infoT,
   propT |-> propT, propsP |-> propsP, comT |-> comT, comments |-> comments,
   lookups |-> lookups, failed |-> failed, settled |-> settled]

\* the remote calls s has issued beyond those of the current state
newCalls(s) ==
  {[kind |-> "call", what |-> k[1], id |-> k[2]] :
     k \in {c \in DOMAIN s.calls : Count(s.calls, c) > Count(calls, c)}}

\* the cache keys s holds beyond those of the current state
newEntries(s) ==
  {[kind |-> "cache", what |-> "page", id |-> k] : k \in DOMAIN s.pageCache \ DOMAIN pageCache}
    \cup {[kind |-> "cache", what |-> "block", id |-> k] :
             k \in DOMAIN s.blockCache \ DOMAIN blockCache}
    \cup {[kind |-> "cache", what |-> "database", id |-> k] :
             k \in DOMAIN s.databaseCache \ DOMAIN databaseCache}
    \cup {[kind |-> "cache", what |-> "comment", id |-> k] :
             k \in DOMAIN s.commentCache \ DOMAIN commentCache}
    \cup {[kind |-> "cache", what |-> "property", id |-> k[2]] :
             k \in DOMAIN s.propertyCache \ DOMAIN propertyCache}

\* what the sub-tasks of a crawl that has returned do on reaching s
lateWork(s) ==
  IF s.reqNo = reqNo /\ cpc = "returned"
  THEN {x.kind : x \in newCalls(s) \cup newEntries(s)}
  ELSE {}

Becomes(s) ==
  /\ world' = s.world /\ ops' = s.ops
  /\ pageCache' = s.pageCache /\ blockCache' = s.blockCache
  /\ databaseCache' = s.databaseCache /\ commentCache' = s.commentCache
  /\ propertyCache' = s.propertyCache
  /\ hpc' = s.hpc /\ req' = s.req /\ resp' = s.resp /\ reqNo' = s.reqNo
  /\ calls' = s.calls /\ done' = s.done /\ mrg' = s.mrg /\ plain' = s.plain
  /\ opts' = s.opts /\ cpc' = s.cpc /\ timer' = s.timer /\ raced' = s.raced
  /\ unhandled' = s.unhandled /\ pageData' = s.pageData
  /\ exp' = s.exp /\ enr' = s.enr /\ dbT' = s.dbT /\ infoT' = s.infoT
  /\ propT' = s.propT /\ propsP' = s.propsP /\ comT' = s.comT /\ comments' = s.comments
  /\ lookups' = s.lookups /\ failed' = s.failed /\ settled' = s.settled
  /\ late' = lateWork(s)

\* One event: the continuations it makes runnable run to completion, and the
\* state they leave is the next state.
Step(s) == \E t \in {Settle(s)} : Becomes(t)

----
\* Inputs.
CrawlParams ==
  {[page_id |-> RootId],
   [page_id |-> RootId, maxDepth |-> 0],
   [page_id |-> RootId, maxDepth |-> 1],
   [page_id |-> RootId, maxDepth |-> 2],
   [page_id |-> RootId, maxDepth |-> -1],
   [page_id |-> RootId, includeDatabases |-> FALSE],
   [page_id |-> RootId, includeComments |-> FALSE],
   [page_id |-> RootId, includeProperties |-> FALSE],
   [page_id |-> RootId, skipCache |-> TRUE],
   [page_id |-> RootId, maxParallelRequests |-> 1],
   [page_id |-> RootId, batchSize |-> 1, timeoutMs |-> 1]}

\* The paged listings are asked for in the world that serves them.
Requests(w) ==
  IF w = "listing"
  THEN {[name |-> "API-get-block-children", params |-> [block_id |-> o]] : o \in DirectOwners}
  ELSE {[name |-> OnePager, params |-> p] : p \in CrawlParams}
         \cup {[name |-> "API-retrieve-a-page", params |-> [page_id |-> RootId]],
               [name |-> "API-no-such-tool", params |-> EmptyMap]}

\* A session is one request, or a request of Openers followed by requests of
\* FollowUps.
Openers ==
  {[name |-> OnePager, params |-> [page_id |-> RootId]],
   [name |-> OnePager, params |-> [page_id |-> RootId, skipCache |-> TRUE]],
   [name |-> "API-retrieve-a-page", params |-> [page_id |-> RootId]]}

FollowUps ==
  Openers \cup
  {[name |-> OnePager, params |-> [page_id |-> RootId, includeProperties |-> FALSE]],
   [name |-> OnePager, params |-> [page_id |-> RootId, includeComments |-> FALSE]]}

Init ==
  /\ world \in Worlds
  /\ ops \in OpsProfiles
  /\ pageCache = EmptyMap /\ blockCache = EmptyMap /\ databaseCache = EmptyMap
  /\ commentCache = EmptyMap /\ propertyCache = EmptyMap
  /\ hpc = "idle" /\ req = [name |-> "", params |-> EmptyMap] /\ resp = Text(EmptyMap)
  /\ reqNo = 0 /\ calls = EmptyMap /\ done = <<>>
  /\ mrg = [o \in Owners |-> NoMrg] /\ plain = "none"
  /\ opts = resolveOptions(EmptyMap) /\ cpc = "idle" /\ timer = "none"
  /\ raced = FALSE /\ unhandled = FALSE /\ pageData = "none"
  /\ exp = [o \in Owners |-> NoExp]
  /\ enr = [b \in BlockIds |-> EmptyMap]
  /\ dbT = [b \in BlockIds |-> "none"] /\ infoT = [b \in BlockIds |-> "none"]
  /\ propT = [n \in PropNames |-> "none"] /\ propsP = "none"
  /\ comT = "none" /\ comments = [results |-> <<>>]
  /\ lookups = EmptyMap /\ failed = {} /\ settled = <<>> /\ late = {}

----
\* Actions: the events of the event loop.

\* A tool call arrives (the previous one has been answered).
CallTool ==
  /\ hpc \in {"idle", "responded"}
  /\ reqNo < MaxRequests
  /\ \E r \in Requests(world) :
       /\ reqNo > 0 => req \in Openers /\ r \in FollowUps
       /\ Step(callTool(St, r))

PlainResponse ==
  /\ plain = "pending"
  /\ \E oc \in PlainOutcomes : Step(plainSettled(St, oc))

FirstPageResponse ==
  \E o \in Owners :
    /\ mrg[o].pc = "first"
    /\ \E oc \in Outcomes : Step(mergeFirst(St, o, oc))

NextPageResponse ==
  \E o \in Owners :
    /\ mrg[o].pc = "batch"
    /\ \E i \in DOMAIN mrg[o].reqs :
         /\ mrg[o].reqs[i] = "pending"
         /\ \E oc \in Outcomes : Step(mergeNext(St, o, i, oc))

DocumentResponse ==
  /\ cpc = "awaitDoc"
  /\ \E oc \in DocOutcomes : Step(documentSettled(St, oc))

DatabaseResponse ==
  \E b \in BlockIds :
    /\ dbT[b] = "pending"
    /\ \E oc \in Outcomes : Step(databaseSettled(St, b, oc))

PageInfoResponse ==
  \E b \in BlockIds :
    /\ infoT[b] = "pending"
    /\ \E oc \in Outcomes : Step(pageInfoSettled(St, b, oc))

PropertyResponse ==
  \E n \in PropNames :
    /\ propT[n] = "pending"
    /\ \E oc \in Outcomes : Step(propertySettled(St, n, oc))

CommentsResponse ==
  /\ comT = "pending"
  /\ \E oc \in Outcomes : Step(commentsSettled(St, oc))

\* The timer fires.  Once a race that the timer lost has attached a handler to
\* timeoutPromise, the late rejection changes nothing and is left out.
TimerFires ==
  /\ timer = "armed"
  /\ cpc \in {"awaitDoc", "awaitAll"} \/ ~raced
  /\ Step(timerFired(St))

Next ==
  \/ CallTool
  \/ PlainResponse
  \/ FirstPageResponse
  \/ NextPageResponse
  \/ DocumentResponse
  \/ DatabaseResponse
  \/ PageInfoResponse
  \/ PropertyResponse
  \/ CommentsResponse
  \/ TimerFires

Spec == Init /\ [][Next]_vars

\* The timer armed by setTimeout fires in the end; a remote call may never answer.
FairSpec == Spec /\ WF_vars(TimerFires)

----
\* What the claims speak of.
Responded == hpc = "responded"

IsCrawl == req.name = OnePager

IsDirect == req.name = "API-get-block-children"

\* the JSON body of the response
Body == resp.content[1].text

DocKey == <<"API-retrieve-a-page", RootId>>

\* an error field somewhere among the children of a listing, at any depth
RECURSIVE errorIn(_)
errorIn(blocks) ==
  \E k \in 1..Len(blocks) :
    LET n == blocks[k] IN
      \/ Has(n, "error")
      \/ Has(n, "database") /\ Has(n.database, "error")
      \/ Has(n, "page_info") /\ Has(n.page_info, "error")
      \/ Has(n, "children") /\ errorIn(n.children)

\* an error field somewhere in the returned tree
treeError(b) ==
  \/ Has(b, "error")
  \/ Has(b, "content") /\ errorIn(b.content)
  \/ Has(b, "detailed_properties")
       /\ \E n \in DOMAIN b.detailed_properties :
            /\ Has(b.detailed_properties[n], "details")
            /\ Has(b.detailed_properties[n].details, "error")

\* the children of a listing and of their listings, at any depth
RECURSIVE blocksIn(_)
blocksIn(blocks) ==
  UNION {{blocks[k]} \cup (IF Has(blocks[k], "children") THEN blocksIn(blocks[k].children) ELSE {})
           : k \in 1..Len(blocks)}

\* P1 ++ ... ++ Pn for the pages 1..n of a listing
RECURSIVE concatPages(_, _, _)
concatPages(w, owner, n) ==
  IF n = 0 THEN <<>> ELSE concatPages(w, owner, n - 1) \o ListData(w, owner, n).results

\* failures the crawl absorbs without a trace in the result
Silent(f) ==
  \/ f.op = "API-retrieve-a-comment"
  \/ f.op = "API-get-block-children" /\ ~(f.at = 1 /\ f.how = "throw")

----
\* C1 (as claimed): the crawl always answers with a node and never rejects, and
\* whenever one of its remote calls failed, an error field in the result says so.
C1_AsClaimed ==
  (Responded /\ IsCrawl) =>
    /\ Has(resp, "content") /\ Has(Body, "id") /\ Has(Body, "_meta")
    /\ failed # {} => treeError(Body)

\* C1 (amended): the crawl always answers with a node carrying the root id and
\* never rejects; a failed call leaves an error field in the result unless it is
\* an annotation call, a non-200 first listing page or a later listing page.
C1_NodeAlways ==
  (Responded /\ IsCrawl) =>
    /\ Has(resp, "content") /\ Has(Body, "id") /\ Body.id = req.params.page_id
    /\ Has(Body, "_meta")
    /\ (\E f \in failed : ~Silent(f)) => treeError(Body)

C1_Witness ==
  /\ Responded /\ IsCrawl
  /\ \E f \in failed : f.op = "API-retrieve-a-database"
  /\ ~Has(Body, "error") /\ treeError(Body)

C3_AsClaimed ==
  (Responded /\ IsDirect /\ failed = {}) =>
    /\ Has(Body, "results")
    /\ Body.results = concatPages(world, req.params.block_id,
                                  Len(Pages(world, req.params.block_id)))

\* C4 (as claimed): when the first page succeeds and page k > 1 is the first to
\* fail (every fetch of it fails), the merger returns the items of pages 1..k-1.
C4_AsClaimed ==
  (Responded /\ IsDirect) =>
    \A f \in failed :
      (f.at > 1 /\ f.how = "all" /\ \A g \in failed : g.at >= f.at) =>
        /\ Has(Body, "results")
        /\ Body.results = concatPages(world, req.params.block_id, f.at - 1)

\* C5: when the timer fires while the crawl awaits the document or its three
\* tasks, the crawl answers with a node that has partial_results true and the
\* error "Operation timed out", and no rejection is left unhandled.
C5_TimeoutNode ==
  (timer = "fired" /\ raced) =>
    /\ Responded /\ Has(resp, "content") /\ Has(Body, "_meta")
    /\ Has(Body, "partial_results") /\ Body.partial_results = TRUE
    /\ Has(Body, "error") /\ Body.error = TimedOut
    /\ ~unhandled

C5_Witness ==
  /\ timer = "fired" /\ raced /\ Responded
  /\ pageData # "none" /\ comT = "done" /\ exp[RootId].pc = "merging"
  /\ Body.error = TimedOut

\* C6 (as claimed): a node returned on timeout after the document was resolved
\* still holds the document payload and the output of every task resolved by then.
C6_AsClaimed ==
  [][(timer = "armed" /\ timer' = "fired" /\ cpc = "awaitAll") =>
       LET b == resp'.content[1].text
           pd == pageCache[pageData]
       IN /\ \A k \in DOMAIN pd : Has(b, k) /\ b[k] = pd[k]
          /\ exp[pageData].pc = "done" => Has(b, "content") /\ b.content = exp[pageData].out
          /\ propsP = "done" => Has(b, "detailed_properties")
          /\ (comT = "done" /\ Len(comments.results) > 0) => Has(b, "comments")]_vars

\* C7 (as claimed): a call with maxDepth = 0 answers with the stub of id and
\* note alone and issues no remote call.
C7_AsClaimed ==
  (Responded /\ IsCrawl /\ Has(req.params, "maxDepth") /\ req.params.maxDepth = 0) =>
    /\ DOMAIN Body \ {"_meta"} = {"id", "note"}
    /\ Body.id = req.params.page_id
    /\ calls = EmptyMap

\* the latest earlier request, when it was a crawl of RootId that did not skip the cache
PrevCrawlNoSkip ==
  /\ done # <<>>
  /\ done[Len(done)].req.name = OnePager
  /\ ~OrFalse(done[Len(done)].req.params, "skipCache")

\* C8 (as claimed): two crawls of the same root with skipCache=false issue at
\* most one document-retrieval call for it in total.
C8_AsClaimed ==
  (IsCrawl /\ ~opts.skipCache /\ PrevCrawlNoSkip) =>
    done[Len(done)].docCalls + Count(calls, DocKey) <= 1

\* C8 (amended): two crawls of the same root with skipCache=false, the second
\* starting when the document cache holds the root, issue at most one
\* document-retrieval call for it in total.
C8_CacheHitAvoidsCall ==
  (IsCrawl /\ ~opts.skipCache /\ PrevCrawlNoSkip /\ done[Len(done)].cached) =>
    done[Len(done)].docCalls + Count(calls, DocKey) <= 1

C8_Witness ==
  /\ IsCrawl /\ ~opts.skipCache /\ PrevCrawlNoSkip /\ done[Len(done)].cached
  /\ done[Len(done)].docCalls = 1 /\ Count(calls, DocKey) = 0
  /\ Responded /\ Has(Body, "content")

\* C9 (as claimed): with skipCache=true every cache-backed lookup of the crawl
\* issues a remote call.
C9_AsClaimed ==
  (IsCrawl /\ opts.skipCache) =>
    \A k \in DOMAIN lookups : Count(calls, k) = lookups[k]

\* C9 (amended): with skipCache=true every cache-backed lookup of the crawl whose
\* operation the proxy knows issues a remote call, whatever the cache holds,
\* except the lookup of a property whose id has the internal-link URL marker.
C9_SkipCacheCalls ==
  (IsCrawl /\ opts.skipCache) =>
    \A k \in DOMAIN lookups :
      (findOperation(ops, k[1])
         /\ ~(k[1] = "API-retrieve-a-page-property" /\ isSpecialUrl(k[2])))
        => Count(calls, k) = lookups[k]

C9_Witness ==
  /\ IsCrawl /\ opts.skipCache /\ done # <<>> /\ done[Len(done)].cached
  /\ RootId \in DOMAIN pageCache
  /\ Count(calls, DocKey) = 1 /\ lookups[DocKey] = 1

isCollectionRef(n) ==
  /\ Has(n, "type") /\ n.type \in {"child_database", "linked_database"}
  /\ databaseIdOf(n) # ""

DbOp == "API-retrieve-a-database"

\* C10: with includeDatabases=false no child of the returned tree has a database
\* field and the crawl issues no database call; with includeDatabases=true every
\* collection-reference child has the field, holding the collection's payload
\* unless a fetch of that collection failed.
C10_CollectionsFollowFlag ==
  IsCrawl =>
    /\ ~opts.includeDatabases =>
         /\ \A k \in DOMAIN calls : k[1] # DbOp
         /\ (Responded /\ Has(resp, "content") /\ Has(Body, "content")) =>
              \A n \in blocksIn(Body.content) : ~Has(n, "database")
    /\ (opts.includeDatabases /\ findOperation(ops, DbOp) /\ Responded
          /\ Has(resp, "content") /\ Has(Body, "content")) =>
         \A n \in blocksIn(Body.content) :
           isCollectionRef(n) =>
             /\ Has(n, "database")
             /\ (\A f \in failed : ~(f.op = DbOp /\ f.id = databaseIdOf(n)))
                  => n.database = DbPayload(databaseIdOf(n))

C10_Witness ==
  /\ Responded /\ IsCrawl /\ opts.includeDatabases /\ world = "test"
  /\ Has(Body, "content") /\ Len(Body.content) = 2
  /\ Has(Body.content[2], "database") /\ Body.content[2].database = DbPayload("db1")
  /\ Count(calls, <<DbOp, "db1">>) = 1

PropOp == "API-retrieve-a-page-property"

\* the properties of the crawl's document whose id has the internal-link marker
\* and that have no cached detail
specialProps ==
  IF pageData = "none" THEN {}
  ELSE {n \in DOMAIN pageCache[pageData].properties :
          /\ pageCache[pageData].properties[n].id \in SpecialPropIds
          /\ <<pageData, pageCache[pageData].properties[n].id>> \notin DOMAIN propertyCache}

\* C11: a property whose id contains the internal-link marker (raw or
\* percent-encoded) and that has no cached detail gets a detail stub of type
\* "unsupported" once its enrichment has run, and no remote call is issued for it.
C11_SpecialUrlStub ==
  IsCrawl =>
    \A n \in specialProps :
      LET prop == pageCache[pageData].properties[n] IN
        /\ Count(calls, <<PropOp, prop.id>>) = 0
        /\ propT[n] # "pending"
        /\ propT[n] = "done" => Has(prop, "details") /\ prop.details = unsupportedDetail
        /\ (Responded /\ Has(Body, "detailed_properties")) =>
             Body.detailed_properties[n].details.type = "unsupported"

C11_Witness ==
  /\ Responded /\ IsCrawl /\ world = "nested" /\ Has(Body, "detailed_properties")
  /\ specialProps = {"link", "enc"}
  /\ Body.detailed_properties["enc"].details = unsupportedDetail
  /\ Body.detailed_properties["link"].details = unsupportedDetail
  /\ Count(calls, <<PropOp, "title">>) = 1
  /\ Count(calls, <<PropOp, "x%3A%2F%2Fy">>) = 0

\* C12 (as claimed): when the document-retrieval operation cannot be found for
\* the root, the response of the aggregate call is the error envelope
\* {status: "error", message, code, timestamp} and holds no node field and no _meta.
C12_AsClaimed ==
  (Responded /\ IsCrawl /\ ~findOperation(ops, "API-retrieve-a-page")
     /\ maxDepthOf(opts) > 0) =>
    /\ Has(Body, "status") /\ Body.status = "error"
    /\ Has(Body, "message") /\ Has(Body, "code") /\ Has(Body, "timestamp")
    /\ ~Has(Body, "id") /\ ~Has(Body, "_meta")

\* the failures of the root's document fetch in the current crawl
docFailures == {f \in failed : f.op = "API-retrieve-a-page" /\ f.id = RootId}

\* the crawl issued no call but the document fetch and left the document cache
\* as the request found it
noExpansion ==
  /\ \A k \in DOMAIN calls : k = DocKey
  /\ pageData = "none"
  /\ RootId \in DOMAIN pageCache =>
       done # <<>> /\ done[Len(done)].cached /\ pageCache[RootId].object = "page"

\* C13 (as claimed): when the root's document fetch answers a non-success status
\* or throws, the crawl returns a node with error set and retrievalFailed true,
\* issues no further call and writes nothing to the document cache.
C13_AsClaimed ==
  (IsCrawl /\ \E f \in docFailures : f.how \in {"bad", "throw"}) =>
    /\ Responded /\ Has(Body, "error")
    /\ Has(Body, "retrievalFailed") /\ Body.retrievalFailed = TRUE
    /\ noExpansion

\* C13 (amended): when the root's document fetch fails, the crawl returns a node
\* with error set, issues no further call and writes nothing to the document
\* cache; the node has retrievalFailed true when the fetch threw an error whose
\* message has no 'timed out' in it, status and details and no retrievalFailed
\* when the fetch answered a non-success status, and is the timed-out node when
\* the message has 'timed out' in it.
C13_DocFailureStopsExpansion ==
  IsCrawl =>
    \A f \in docFailures :
      /\ Responded /\ Has(Body, "error") /\ Body.id = RootId
      /\ noExpansion
      /\ f.how = "throw" =>
           Has(Body, "retrievalFailed") /\ Body.retrievalFailed = TRUE
      /\ f.how = "bad" =>
           /\ Body.error = "Failed to retrieve page" /\ Body.status = 400
           /\ Body.details = ErrBody /\ ~Has(Body, "retrievalFailed")
      /\ f.how = "throwTimedOut" =>
           Body.error = TimedOut /\ Body.partial_results = TRUE /\ ~Has(Body, "retrievalFailed")

C13_Witness ==
  /\ Responded /\ IsCrawl
  /\ \E f \in docFailures : f.how = "throw"
  /\ Has(Body, "retrievalFailed") /\ Body.retrievalFailed = TRUE
  /\ calls = Inc(EmptyMap, DocKey, 1)
  /\ RootId \notin DOMAIN pageCache

\* the five retrieval operations
RetrievalOps ==
  {"API-retrieve-a-page", "API-get-block-children", "API-retrieve-a-database",
   "API-retrieve-a-comment", "API-retrieve-a-page-property"}

\* C14: every call a crawl issues to the Operation Executor is one of the five
\* retrieval operations.
C14_ReadOnly ==
  IsCrawl => \A k \in DOMAIN calls : k[1] \in RetrievalOps

C14_Witness ==
  /\ IsCrawl /\ Responded
  /\ \A op \in RetrievalOps : \E k \in DOMAIN calls : k[1] = op /\ calls[k] > 0

\* the value the claim gives an option: the caller's when supplied, else the default
claimed(k, d) == IF Has(req.params, k) THEN req.params[k] ELSE d

\* C15 (as claimed): every option the caller omits takes its default, and every
\* option supplied within its range (maxDepth >= 0, batchSize >= 1,
\* maxParallelRequests >= 1, timeoutMs >= 0) is used with the supplied value.
C15_AsClaimed ==
  IsCrawl =>
    /\ claimed("maxDepth", DefaultMaxDepth) >= 0 =>
         /\ opts.maxDepth = claimed("maxDepth", DefaultMaxDepth)
         /\ maxDepthOf(opts) = claimed("maxDepth", DefaultMaxDepth)
    /\ claimed("batchSize", DefaultBatchSize) >= 1 =>
         batchSizeOf(opts) = claimed("batchSize", DefaultBatchSize)
    /\ claimed("maxParallelRequests", DefaultMaxParallelRequests) >= 1 =>
         opts.maxParallelRequests = claimed("maxParallelRequests", DefaultMaxParallelRequests)
    /\ claimed("timeoutMs", DefaultTimeoutMs) >= 0 =>
         opts.timeoutMs = claimed("timeoutMs", DefaultTimeoutMs)
    /\ opts.includeDatabases = claimed("includeDatabases", TRUE)
    /\ opts.includeComments = claimed("includeComments", TRUE)
    /\ opts.includeProperties = claimed("includeProperties", TRUE)
    /\ opts.skipCache = claimed("skipCache", FALSE)

ListOp == "API-get-block-children"

\* the page fetches of a merge that are in flight
inFlight(o) ==
  IF mrg[o].pc = "first" THEN 1
  ELSE Cardinality({i \in DOMAIN mrg[o].reqs : mrg[o].reqs[i] = "pending"})

\* C16 (as claimed): within one merge at most one page fetch is in flight at any
\* time and each cursor is requested at most once, so a listing of n pages gets
\* at most n fetches.
C16_AsClaimed ==
  \A o \in Owners :
    /\ inFlight(o) <= 1
    /\ Count(calls, <<ListOp, o>>) <= Len(Pages(world, o))

\* the failures of the first page of the listing of o in the current request
firstPageFailures(o) == {f \in failed : f.op = ListOp /\ f.id = o /\ f.at = 1}

\* C17 (as claimed): when the first page fetch of a listing fails (thrown error or
\* non-success status), the merger hands its caller an error and no merged
\* listing: the direct caller answers an error body without results, and the
\* crawl's content for that listing holds an error.
C17_AsClaimed ==
  /\ (Responded /\ IsDirect) =>
       \A f \in firstPageFailures(req.params.block_id) :
         /\ ~Has(Body, "results")
         /\ (Has(Body, "status") /\ Body.status = "error") \/ Body = ErrBody
  /\ (Responded /\ IsCrawl /\ Has(Body, "content")) =>
       \A f \in firstPageFailures(RootId) : errorIn(Body.content)

\* the levels of children in a listing of the returned tree
RECURSIVE levels(_)
levels(blocks) ==
  LET below == {IF Has(blocks[k], "children") THEN levels(blocks[k].children) ELSE 0
                  : k \in 1..Len(blocks)}
  IN 1 + (IF below = {} THEN 0 ELSE CHOOSE m \in below : \A x \in below : x <= m)

\* C18 (as claimed): no child-listing call is issued at a recursion depth
\* d >= maxDepth, and the children of the returned tree nest no deeper than
\* maxDepth levels.
C18_AsClaimed ==
  (IsCrawl /\ claimed("maxDepth", DefaultMaxDepth) >= 0) =>
    /\ \A o \in Owners :
         exp[o].pc = "merging" => exp[o].depth < claimed("maxDepth", DefaultMaxDepth)
    /\ (Responded /\ Has(Body, "content")) =>
         levels(Body.content) <= claimed("maxDepth", DefaultMaxDepth)

\* C19: under the fairness of the timer alone, a crawl in progress eventually
\* returns, whichever remote calls never complete.
C19_CrawlReturns == (hpc = "crawl") ~> (hpc = "responded")

C19_Witness ==
  /\ Responded /\ IsCrawl /\ timer = "fired" /\ raced
  /\ pageData = "none" /\ Count(calls, DocKey) = 1 /\ failed = {}
  /\ Has(Body, "id") /\ Body.error = TimedOut

ComOp == "API-retrieve-a-comment"

\* the crawl resolved the root document and returned without the timer
returnedAfterTasks ==
  /\ Responded /\ IsCrawl /\ pageData = RootId
  /\ ~(timer = "fired" /\ raced)

\* C20: the three expansion tasks of the root are fault-isolated: when the crawl
\* returns after its tasks, the node holds the content, and it holds the
\* annotations when the annotation call did not fail, the detail of every
\* property whose call did not fail, and the listed children when the listing
\* did not fail, whatever happened to the other tasks (annotations and details
\* where the resolver knows their operation).
C20_TasksIsolated ==
  returnedAfterTasks =>
    /\ Has(resp, "content") /\ Has(Body, "content")
    /\ (opts.includeComments /\ findOperation(ops, ComOp)
          /\ (\A f \in failed : f.op # ComOp)
          /\ Len(CommentsData(world, RootId).results) > 0) =>
         Has(Body, "comments") /\ Body.comments = CommentsData(world, RootId)
    /\ opts.includeProperties =>
         /\ Has(Body, "detailed_properties")
         /\ \A n \in DOMAIN Body.detailed_properties :
              LET id == Body.detailed_properties[n].id IN
              (id \notin SpecialPropIds /\ findOperation(ops, PropOp)
                 /\ \A f \in failed : ~(f.op = PropOp /\ f.id = id)) =>
                /\ Has(Body.detailed_properties[n], "details")
                /\ Body.detailed_properties[n].details = PropPayload(RootId, id)
    /\ (maxDepthOf(opts) > 1 /\ \A f \in failed : f.op # ListOp) =>
         /\ Len(Body.content) = Len(Pages(world, RootId)[1])
         /\ \A k \in 1..Len(Body.content) : Body.content[k].id = Pages(world, RootId)[1][k]

C20_Witness ==
  /\ returnedAfterTasks /\ world = "test"
  /\ firstPageFailures(RootId) # {}
  /\ Body.content = <<failedNode(RootId, "request failed")>>
  /\ Has(Body, "comments") /\ Len(Body.comments.results) = 1
  /\ Has(Body, "detailed_properties")
  /\ Body.detailed_properties["title"].details = PropPayload(RootId, "title")

\* the ids of the blocks of a listing, in order
idsOf(blocks) == [k \in 1..Len(blocks) |-> blocks[k].id]

\* the listing of o was fetched whole in the current request
listed(o) == Count(calls, <<ListOp, o>>) > 0 /\ \A f \in failed : ~(f.op = ListOp /\ f.id = o)

\* C21: whatever the order in which the concurrent child expansions of a batch
\* finish, the children gathered so far, and the children of the returned tree
\* at every level, are in the order of the merged source listing.
C21_OrderKept ==
  /\ \A o \in Owners :
       exp[o].pc = "batch" =>
         /\ Len(exp[o].out) = exp[o].i - 1
         /\ idsOf(exp[o].out) = idsOf(SubSeq(exp[o].blocks, 1, exp[o].i - 1))
  /\ (returnedAfterTasks /\ Has(resp, "content") /\ Has(Body, "content")
        /\ maxDepthOf(opts) > 1 /\ listed(RootId)) =>
       /\ idsOf(Body.content) = Pages(world, RootId)[1]
       /\ \A k \in 1..Len(Body.content) :
            (Has(Body.content[k], "children") /\ maxDepthOf(opts) > 2
               /\ listed(Body.content[k].id)) =>
              idsOf(Body.content[k].children) = Pages(world, Body.content[k].id)[1]

C21_Witness ==
  /\ returnedAfterTasks /\ world = "same_db"
  /\ settled = <<"b5", "b2">>
  /\ Has(Body, "content") /\ idsOf(Body.content) = <<"b2", "b5">>
  /\ Has(Body.content[1], "database") /\ Has(Body.content[2], "database")

\* child k of the listing being expanded has begun its expansion and is not
\* yet pushed to the result
begun(o, k) == enr[exp[o].blocks[k].id] # EmptyMap

idle(b) == dbT[b] # "pending" /\ infoT[b] # "pending" /\ (b \in Owners => exp[b].pc \in {"none", "done"})

\* C22: the batches of a listing run one after another: while a batch is being
\* expanded, no child after it has begun, every child before it has completed
\* with its nested expansion, collection fetch and info fetch, and at most
\* batchSize children of the listing are being expanded.
C22_BatchesSequential ==
  (IsCrawl /\ claimed("batchSize", DefaultBatchSize) >= 1) =>
    \A o \in Owners :
      exp[o].pc = "batch" =>
        LET e == exp[o]
            size == claimed("batchSize", DefaultBatchSize)
        IN /\ \A k \in 1..Len(e.blocks) :
                /\ k > e.i + size - 1 => ~begun(o, k) /\ idle(e.blocks[k].id)
                /\ k < e.i => ~begun(o, k) /\ idle(e.blocks[k].id)
           /\ Cardinality({k \in 1..Len(e.blocks) : begun(o, k)}) <= size
           /\ Len(e.out) = e.i - 1

C22_Witness ==
  /\ IsCrawl /\ world = "same_db" /\ claimed("batchSize", DefaultBatchSize) = 1
  /\ exp[RootId].pc = "batch" /\ exp[RootId].i = 2
  /\ settled = <<"b2">> /\ dbT["b5"] = "pending" /\ begun(RootId, 2) /\ ~begun(RootId, 1)

\* the children, at every level of the tree, whose expansion is in progress
expanding == {b \in BlockIds : enr[b] # EmptyMap}

\* C23 (as claimed): at every instant of a crawl the number of child expansions
\* in progress, counted over all nesting levels, is at most batchSize.
C23_AsClaimed ==
  (IsCrawl /\ claimed("batchSize", DefaultBatchSize) >= 1) =>
    Cardinality(expanding) <= claimed("batchSize", DefaultBatchSize)

\* a task of child n failed in the current request: its nested listing or its
\* info fetch
childTaskFailed(n) ==
  \E f \in failed :
    \/ f.op = ListOp /\ f.id = n.id
    \/ f.op = "API-retrieve-a-page" /\ f.id = n.id

\* a fetch of collection d failed in the current request
collectionFailed(d) == \E f \in failed : f.op = DbOp /\ f.id = d

\* C24 (as claimed): a failure of a task of one child (nested listing, collection
\* fetch, info fetch) leaves an error field on that child, never aborts the
\* batch or the parent call, and every sibling still appears in the result.
C24_AsClaimed ==
  (returnedAfterTasks /\ Has(resp, "content") /\ Has(Body, "content")
     /\ maxDepthOf(opts) > 1 /\ listed(RootId)) =>
    /\ idsOf(Body.content) = Pages(world, RootId)[1]
    /\ \A k \in 1..Len(Body.content) :
         LET n == Body.content[k] IN
         /\ childTaskFailed(n) => errorIn(<<n>>)
         /\ (isCollectionRef(n) /\ collectionFailed(databaseIdOf(n))) =>
              \E j \in 1..Len(Body.content) :
                /\ isCollectionRef(Body.content[j])
                /\ databaseIdOf(Body.content[j]) = databaseIdOf(n)
                /\ errorIn(<<Body.content[j]>>)
         /\ ~errorIn(<<n>>) =>
              /\ (~childTaskFailed(n) /\ Has(n, "database")) =>
                   n.database = DbPayload(databaseIdOf(n))
              /\ Has(n, "page_info") => n.page_info.id = n.id

\* the collection ids the blocks refer to
DatabaseIds == {databaseIdOf(Block(b)) : b \in BlockIds} \ {""}

\* the collection-reference blocks of the returned tree that refer to d
refsTo(d) ==
  {n \in blocksIn(Body.content) : isCollectionRef(n) /\ databaseIdOf(n) = d}

\* C25 (as claimed): a failed collection fetch leaves a database_error field on
\* the child that refers to the collection.
C25_AsClaimed ==
  (returnedAfterTasks /\ Has(resp, "content") /\ Has(Body, "content")) =>
    \A d \in DatabaseIds :
      (collectionFailed(d) /\ refsTo(d) # {}) =>
        \E n \in refsTo(d) : Has(n, "database_error")

\* the sub-document references among the blocks
SubDocuments == {b \in BlockIds : Block(b).type = "child_page"}

\* C26 (as claimed): for a child_page child at a depth below maxDepth - 1 the
\* crawl fetches the lightweight info only and issues no child-listing call for
\* the sub-document.
C26_AsClaimed ==
  (IsCrawl /\ maxDepthOf(opts) > 1 /\ claimed("maxDepth", DefaultMaxDepth) > 1) =>
    \A b \in SubDocuments : Count(calls, <<ListOp, b>>) = 0

\* the properties of the root document that enrichment fetches
fetchedProps ==
  {n \in DOMAIN PagePayload(world, RootId).properties :
     PagePayload(world, RootId).properties[n].id \notin SpecialPropIds}

propIdOf(n) == PagePayload(world, RootId).properties[n].id

propFailures(n) == {f \in failed : f.op = PropOp /\ f.id = propIdOf(n)}

\* C27: property enrichment never fails outright: it resolves exactly when no
\* property task is pending, whatever the outcomes; a successful fetch is
\* attached and cached under (document id, property id); a failed fetch attaches
\* a detail of type "error" and leaves the cache as it was, so the cache holds
\* successful payloads only (fetches where the resolver knows the operation).
C27_EnrichmentNeverFails ==
  /\ \A k \in DOMAIN propertyCache : propertyCache[k] = PropPayload(k[1], k[2])
  /\ propsP = "done" => \A n \in PropNames : propT[n] # "pending"
  /\ propsP = "running" => \E n \in PropNames : propT[n] = "pending"
  /\ (returnedAfterTasks /\ propsP = "done" /\ findOperation(ops, PropOp)) =>
       /\ Has(resp, "content") /\ Has(Body, "detailed_properties")
       /\ \A n \in fetchedProps :
            LET det == Body.detailed_properties[n]
                key == <<RootId, propIdOf(n)>>
            IN /\ Has(det, "details")
               /\ (\E f \in propFailures(n) : f.how = "bad") => det.details = errorDetail(400)
               /\ (\E f \in propFailures(n) : f.how = "throw") => det.details = errorDetail(500)
               /\ (propFailures(n) # {} /\ ~opts.skipCache) => key \notin DOMAIN propertyCache
               /\ propFailures(n) = {} =>
                    /\ det.details = PropPayload(RootId, propIdOf(n))
                    /\ key \in DOMAIN propertyCache

C27_Witness ==
  /\ returnedAfterTasks /\ propsP = "done" /\ world = "two_props"
  /\ \E f \in propFailures("title") : f.how = "throw"
  /\ propFailures("tags") = {}
  /\ Count(calls, <<PropOp, "tags">>) = 1
  /\ Has(Body, "detailed_properties")
  /\ Body.detailed_properties["title"].details.type = "error"
  /\ Body.detailed_properties["tags"].details = PropPayload(RootId, "tags")
  /\ <<RootId, "tags">> \in DOMAIN propertyCache
  /\ <<RootId, "title">> \notin DOMAIN propertyCache

\* the annotation call of the root failed in the current request
commentsFailed == \E f \in failed : f.op = ComOp /\ f.id = RootId

\* C28: a document node whose expansion has started issues exactly one
\* annotation call when includeComments is set and none otherwise; a failed
\* call gives an empty result set and nothing else; every annotation of a
\* successful call is cached under its id; the comments field is there exactly
\* when the result set is not empty (one call where the resolver knows the
\* operation, no call and no field where it does not).
C28_OneAnnotationFetch ==
  /\ \A c \in DOMAIN commentCache : commentCache[c] = [object |-> "comment", id |-> c]
  /\ (IsCrawl /\ pageData = RootId) =>
       Count(calls, <<ComOp, RootId>>) =
         (IF opts.includeComments /\ findOperation(ops, ComOp) THEN 1 ELSE 0)
  /\ (IsCrawl /\ pageData = RootId /\ comT = "done" /\ commentsFailed) =>
       comments = [results |-> <<>>]
  /\ (returnedAfterTasks /\ Has(resp, "content") /\ opts.includeComments) =>
       LET got == CommentsData(world, RootId) IN
       /\ commentsFailed => ~Has(Body, "comments")
       /\ ~findOperation(ops, ComOp) => ~Has(Body, "comments")
       /\ (~commentsFailed /\ findOperation(ops, ComOp)) =>
            /\ Has(Body, "comments") <=> got.results # <<>>
            /\ Has(Body, "comments") => Body.comments = got
            /\ \A k \in 1..Len(got.results) :
                 /\ got.results[k].id \in DOMAIN commentCache
                 /\ commentCache[got.results[k].id] = got.results[k]
  /\ (returnedAfterTasks /\ Has(resp, "content") /\ ~opts.includeComments) =>
       ~Has(Body, "comments")

C28_Witness ==
  /\ returnedAfterTasks /\ world = "test" /\ opts.includeComments
  /\ commentsFailed
  /\ Count(calls, <<ComOp, RootId>>) = 1
  /\ ~Has(Body, "comments")
  /\ "c1" \notin DOMAIN commentCache

\* C29 (as claimed): every node of the tree a crawl returns carries its id: the
\* root and every element of every children sequence, stub and error nodes
\* included.
C29_AsClaimed ==
  (Responded /\ IsCrawl /\ Has(resp, "content") /\ ~Has(resp, "isError")) =>
    /\ Has(Body, "id")
    /\ Has(Body, "content") => \A n \in blocksIn(Body.content) : Has(n, "id")

\* what a property of a cached document holds beyond what the document call
\* returned for it
storedDetail(p, n) ==
  IF Has(pageCache[p].properties[n], "details")
  THEN pageCache[p].properties[n].details ELSE EmptyMap

\* C30 (as claimed): every entry of every cache is the payload a successful call
\* returned for its key, and nothing that stems from a failed call is stored.
C30_AsClaimed ==
  /\ \A p \in DOMAIN pageCache :
       /\ pageCache[p].object = "page" /\ pageCache[p].id = p
       /\ \A n \in DOMAIN pageCache[p].properties :
            ~(Has(storedDetail(p, n), "type") /\ storedDetail(p, n).type = "error")
  /\ \A b \in DOMAIN blockCache : blockCache[b] = Block(b)
  /\ \A d \in DOMAIN databaseCache : databaseCache[d] = DbPayload(d)
  /\ \A c \in DOMAIN commentCache : commentCache[c] = [object |-> "comment", id |-> c]
  /\ \A k \in DOMAIN propertyCache : propertyCache[k] = PropPayload(k[1], k[2])

\* C31: the caches only grow: no step of the system (a crawl, a plain tool
\* call, the timer, a failure) removes a key from a cache.
C31_CachesOnlyGrow ==
  [][/\ DOMAIN pageCache \subseteq DOMAIN pageCache'
     /\ DOMAIN blockCache \subseteq DOMAIN blockCache'
     /\ DOMAIN databaseCache \subseteq DOMAIN databaseCache'
     /\ DOMAIN commentCache \subseteq DOMAIN commentCache'
     /\ DOMAIN propertyCache \subseteq DOMAIN propertyCache']_vars

\* a second request has failed or timed out, with entries of the first request
\* in every cache it filled
C31_Witness ==
  /\ reqNo = 2 /\ Responded /\ world = "subdoc"
  /\ failed # {} \/ timer = "fired"
  /\ done[1].req.name = OnePager
  /\ {"p1", "b3"} \subseteq DOMAIN pageCache
  /\ {"b3", "b6", "b1"} \subseteq DOMAIN blockCache
  /\ <<RootId, "title">> \in DOMAIN propertyCache

\* the crawl has returned its timed-out node
timedOutReturned ==
  /\ Responded /\ IsCrawl /\ cpc = "returned" /\ timer = "fired"
  /\ Has(Body, "error") /\ Body.error = TimedOut

\* C32: the timer cancels nothing: the calls that are outstanding when the crawl
\* returns its timed-out node stay outstanding, and whatever they do afterwards
\* leaves the response that was returned as it is.
C32_AbandonedWorkRuns ==
  [][/\ (timer = "armed" /\ timer' = "fired" /\ reqNo' = reqNo) =>
          /\ mrg' = mrg /\ dbT' = dbT /\ infoT' = infoT
          /\ propT' = propT /\ comT' = comT
     /\ (timedOutReturned /\ reqNo' = reqNo) =>
          /\ resp' = resp /\ hpc' = hpc /\ cpc' = cpc]_vars

\* after the timed-out node was returned, an event of the abandoned work has
\* issued a remote call and added a cache entry
C32_Witness ==
  /\ timedOutReturned
  /\ late = {"call", "cache"}

\* C33 (as claimed): the crawl returns the timed-out node exactly when the timer
\* fired while the crawl was awaiting, and a failed call of the document is
\* reported with retrievalFailed, never as a timeout.
C33_AsClaimed ==
  (Responded /\ IsCrawl /\ Has(resp, "content")) =>
    /\ (Has(Body, "error") /\ Body.error = TimedOut) <=> (timer = "fired" /\ raced)
    /\ (\E f \in docFailures : f.how \in {"throw", "throwTimedOut"}) =>
         (timer = "fired" /\ raced)
           \/ (Has(Body, "retrievalFailed") /\ Body.retrievalFailed = TRUE)

\* the secondary operations the resolver cannot find
missingOps == SecondaryOps \ ops

notAvailable(d) == [id |-> d, note |-> "Database details not available"]

\* C34 (as claimed): a missing secondary operation leaves a note at the place
\* it affects: the collection reference, the annotations of the node, the
\* detail of the property.
C34_AsClaimed ==
  (returnedAfterTasks /\ Has(resp, "content") /\ Has(Body, "content")
     /\ missingOps = SecondaryOps /\ failed = {}
     /\ opts.includeDatabases /\ opts.includeComments /\ opts.includeProperties) =>
    /\ \A n \in blocksIn(Body.content) :
         isCollectionRef(n) => Has(n, "database") /\ Has(n.database, "note")
    /\ Has(Body, "comments") /\ Has(Body.comments, "note")
    /\ \A n \in fetchedProps :
         /\ Has(Body.detailed_properties[n], "details")
         /\ Has(Body.detailed_properties[n].details, "note")

\* C34 (amended): a missing secondary operation is a soft skip: no call of that
\* kind is issued, the crawl returns the tree and puts no error in it; a
\* collection reference gets database {id, note}, the node gets no comments
\* field, and a property that would be fetched gets no details.
C34_SoftSkip ==
  IsCrawl =>
    /\ \A k \in DOMAIN calls : k[1] \in missingOps => calls[k] = 0
    /\ (returnedAfterTasks /\ Has(resp, "content")) =>
         /\ Has(Body, "content")
         /\ failed = {} => ~treeError(Body)
         /\ (DbOp \in missingOps /\ opts.includeDatabases /\ listed(RootId)) =>
              \A n \in blocksIn(Body.content) :
                (isCollectionRef(n) /\ databaseIdOf(n) \notin DOMAIN databaseCache) =>
                  Has(n, "database") /\ n.database = notAvailable(databaseIdOf(n))
         /\ ComOp \in missingOps => ~Has(Body, "comments")
         /\ (PropOp \in missingOps /\ opts.includeProperties) =>
              /\ Has(Body, "detailed_properties")
              /\ \A n \in fetchedProps :
                   <<RootId, propIdOf(n)>> \notin DOMAIN propertyCache =>
                     ~Has(Body.detailed_properties[n], "details")

C34_Witness ==
  /\ returnedAfterTasks /\ world = "test" /\ missingOps = SecondaryOps
  /\ req.params = [page_id |-> RootId]
  /\ calls = Inc(Inc(EmptyMap, DocKey, 1), <<ListOp, RootId>>, 1)
  /\ Body.content[2].database = notAvailable("db1")
  /\ ~Has(Body, "comments")
  /\ ~Has(Body.detailed_properties["title"], "details")

\* C35 (as claimed): the document cache entry of an id is the raw payload the
\* last successful fetch returned for it; a crawl adds no field to it.
C35_AsClaimed ==
  \A p \in DOMAIN pageCache : pageCache[p] = PagePayload(world, p)

\* C36 (as claimed): whatever the earlier crawls, a crawl with includeProperties
\* false issues no property-detail call and returns no property detail, and a
\* crawl with includeComments false issues no annotation call and returns no
\* annotation.
C36_AsClaimed ==
  (Responded /\ IsCrawl /\ Has(resp, "content")) =>
    /\ ~opts.includeProperties =>
         /\ \A k \in DOMAIN calls : k[1] = PropOp => calls[k] = 0
         /\ ~Has(Body, "detailed_properties")
         /\ Has(Body, "properties") =>
              \A n \in DOMAIN Body.properties : ~Has(Body.properties[n], "details")
    /\ ~opts.includeComments =>
         /\ \A k \in DOMAIN calls : k[1] = ComOp => calls[k] = 0
         /\ ~Has(Body, "comments")

\* C37 (as claimed): with skipCache false one crawl issues at most one
\* collection-retrieval call per collection id.
C37_AsClaimed ==
  (IsCrawl /\ ~opts.skipCache) =>
    \A d \in DatabaseIds : Count(calls, <<DbOp, d>>) <= 1

\* C38 (as claimed): however a crawl returns, the rejection of its timer is
\* observed by a handler when the timer fires.
C38_AsClaimed == IsCrawl => ~unhandled

\* the parameters without maxParallelRequests
withoutParallel(params) == [k \in DOMAIN params \ {"maxParallelRequests"} |-> params[k]]

\* the state with maxParallelRequests left at its default
sameBut(s) ==
  [s EXCEPT !.req.params = withoutParallel(@),
            !.opts.maxParallelRequests = DefaultMaxParallelRequests]

====
